---- MODULE Spec2Model ----
(***************************************************************************)
(* Fisheries supply-chain chaincode (Gatdor/BLOCKCHAIN-FMS).               *)
(*                                                                         *)
(* The repository holds two variants of the same contract:                 *)
(*   "bigdatacc" : src/chaincode-backup/bigdatacc/bigdatacc.go             *)
(*   "fisheries" : src/unnamed/part_001 (lines 1-249)                      *)
(* A deployment runs one of them; `variant` is fixed in Init.              *)
(*                                                                         *)
(* Go strings are sequences of byte values (ASCII codes), so that the      *)
(* key order of a range scan and the comparison of dates are the bytewise  *)
(* lexicographic order the code uses.  The byte FF stands for the bytes   *)
(* that occur in no UTF-8 text.                                            *)
(* A float64 that is an exact number of tenths is the integer count of     *)
(* tenths; +Inf is the value Inf.                                          *)
(***************************************************************************)
EXTENDS Integers, Sequences, FiniteSets, TLC

VARIABLES
    variant,   \* which contract source is deployed
    state,     \* the channel's world state: key -> bytes (stub.PutState)
    priv,      \* the private collection "FisherCollection": key -> bytes
    last       \* the most recent invocation: its inputs and what it returned

vars == <<variant, state, priv, last>>

----------------------------------------------------------------------------
(* Strings                                                                 *)

\* Bytewise comparison of Go strings (the operators <, <=, >= on string).
RECURSIVE StrLess(_, _)
StrLess(a, b) ==
    IF Len(b) = 0 THEN FALSE
    ELSE IF Len(a) = 0 THEN TRUE
    ELSE IF Head(a) < Head(b) THEN TRUE
    ELSE IF Head(a) > Head(b) THEN FALSE
    ELSE StrLess(Tail(a), Tail(b))

StrLeq(a, b) == a = b \/ StrLess(a, b)

\* The key prefixes and the scan sentinel, as byte sequences.
FISHER_ == <<70, 73, 83, 72, 69, 82, 95>>
CATCH_  == <<67, 65, 84, 67, 72, 95>>
BATCH_  == <<66, 65, 84, 67, 72, 95>>
ORDER_  == <<79, 82, 68, 69, 82, 95>>
ASSET_  == <<65, 83, 83, 69, 84, 95>>
Tilde   == <<126>>

\* error values: nil is the empty tuple, an error is <<format, argument>>
Nil == <<>>
Errorf(msg, arg) == <<msg, arg>>
IsErr(e) == Len(e) > 0
ErrMsg(e) == IF Len(e) > 0 THEN e[1] ELSE ""

\* float64 infinities, outside the range of the finite values of the model
Inf    == 2 ^ 20
NegInf == 0 - Inf

----------------------------------------------------------------------------
(* encoding/json, as far as the contract uses it                           *)

\* A Go string is any byte sequence. Of the bytes of the model, those below
\* 128 are UTF-8 text, as is the replacement rune U+FFFD (EF BF BD); the byte
\* FF occurs in no UTF-8 text.
RECURSIVE ToValidUTF8(_)
ToValidUTF8(s) ==
    IF Len(s) = 0 THEN <<>>
    ELSE (IF Head(s) = 255 THEN <<239, 191, 189>> ELSE <<Head(s)>>) \o ToValidUTF8(Tail(s))

\* json.Marshal of a string coerces it to valid UTF-8, replacing each invalid
\* byte with the replacement rune; json.Unmarshal gives the text back as it is.
JString(s) == [t |-> "string", v |-> ToValidUTF8(s)]
JNumber(n) == [t |-> "number", v |-> n]
JArray(xs) == [t |-> "array", v |-> xs]
\* (mutant) the elements are written last to first
JStringsReversed(xs) == JArray([i \in DOMAIN xs |-> ToValidUTF8(xs[Len(xs) + 1 - i])])

\* json.Marshal of a []string: the array of its elements in order
JStrings(xs) == JArray([i \in DOMAIN xs |-> ToValidUTF8(xs[i])])

\* (mutant) the government id is written under the tag "govId"
MarshalFisherGovId(f) ==
    << <<"id", JString(f.ID)>>, <<"name", JString(f.Name)>>,
       <<"govId", JString(f.GovtID)>>, <<"role", JString(f.Role)>> >>

\* json.Marshal of a struct: the members in field order, named by the json tag.
MarshalFisher(f) ==
    << <<"id", JString(f.ID)>>, <<"name", JString(f.Name)>>,
       <<"govtId", JString(f.GovtID)>>, <<"role", JString(f.Role)>> >>

\* The member of object b named tag (the last one wins); <<>> when absent.
Member(b, tag) ==
    LET idx == {i \in DOMAIN b : b[i][1] = tag}
    IN  IF idx = {} THEN <<>>
        ELSE <<b[CHOOSE i \in idx : \A j \in idx : j <= i][2]>>

\* A member decodes into a field of kind t when it is absent or has kind t.
Fits(b, tag, t) == Member(b, tag) = <<>> \/ Member(b, tag)[1].t = t

StringField(b, tag) == IF Member(b, tag) = <<>> THEN <<>> ELSE Member(b, tag)[1].v

\* json.Unmarshal into a Fisher: [err, val].
UnmarshalFisher(b) ==
    IF \A tag \in {"id", "name", "govtId", "role"} : Fits(b, tag, "string")
    THEN [err |-> Nil,
          val |-> [ID |-> StringField(b, "id"), Name |-> StringField(b, "name"),
                   GovtID |-> StringField(b, "govtId"), Role |-> StringField(b, "role")]]
    ELSE [err |-> Errorf("json: cannot unmarshal", <<>>), val |-> <<>>]


MarshalCatchObject(c) ==
    << <<"catchId", JString(c.CatchID)>>, <<"fisherId", JString(c.FisherID)>>,
       <<"species", JString(c.Species)>>, <<"weightKg", JNumber(c.WeightKg)>>,
       <<"date", JString(c.Date)>> >>

\* json.Marshal of a Catch: [err, b]. A float64 that is +Inf, -Inf or NaN is an
\* unsupported value.
MarshalCatch(c) ==
    IF c.WeightKg \in {Inf, NegInf}
    THEN [err |-> Errorf("json: unsupported value", <<>>), b |-> <<>>]
    ELSE [err |-> Nil, b |-> MarshalCatchObject(c)]

NumberField(b, tag) == IF Member(b, tag) = <<>> THEN 0 ELSE Member(b, tag)[1].v

\* json.Unmarshal into a Catch: [err, val].
UnmarshalCatch(b) ==
    IF /\ \A tag \in {"catchId", "fisherId", "species", "date"} : Fits(b, tag, "string")
       /\ Fits(b, "weightKg", "number")
    THEN [err |-> Nil,
          val |-> [CatchID |-> StringField(b, "catchId"), FisherID |-> StringField(b, "fisherId"),
                   Species |-> StringField(b, "species"), WeightKg |-> NumberField(b, "weightKg"),
                   Date |-> StringField(b, "date")]]
    ELSE [err |-> Errorf("json: cannot unmarshal", <<>>), val |-> <<>>]

\* json.Marshal of a []Catch: a nil slice is the JSON value null, any other
\* slice the array of its elements in order.
JNull == [t |-> "null", v |-> <<>>]
MarshalCatches(out) ==
    IF Len(out) = 0 THEN JNull
    ELSE JArray([i \in 1..Len(out) |-> MarshalCatchObject(out[i])])

MarshalBatch(x) ==
    << <<"batchId", JString(x.BatchID)>>, <<"catchIds", JStrings(x.CatchIDs)>>,
       <<"processorId", JString(x.ProcessorID)>>, <<"date", JString(x.Date)>>,
       <<"qrCodeUrl", JString(x.QRCodeURL)>> >>

\* (mutant) the status is written as it would be after shipping
MarshalOrderShipped(o) ==
    << <<"orderId", JString(o.OrderID)>>, <<"batchId", JString(o.BatchID)>>,
       <<"buyerId", JString(o.BuyerID)>>,
       <<"status", JString(<<115, 104, 105, 112, 112, 101, 100>>)>>,
       <<"date", JString(o.Date)>> >>

MarshalOrder(o) ==
    << <<"orderId", JString(o.OrderID)>>, <<"batchId", JString(o.BatchID)>>,
       <<"buyerId", JString(o.BuyerID)>>, <<"status", JString(o.Status)>>,
       <<"date", JString(o.Date)>> >>

MarshalAsset(a) ==
    << <<"id", JString(a.ID)>>, <<"color", JString(a.Color)>>,
       <<"size", JNumber(a.Size)>>, <<"owner", JString(a.Owner)>>,
       <<"appraisedValue", JNumber(a.AppraisedValue)>> >>

\* json.Unmarshal into an Asset: [err, val].
UnmarshalAsset(b) ==
    IF /\ \A tag \in {"id", "color", "owner"} : Fits(b, tag, "string")
       /\ \A tag \in {"size", "appraisedValue"} : Fits(b, tag, "number")
    THEN [err |-> Nil,
          val |-> [ID |-> StringField(b, "id"), Color |-> StringField(b, "color"),
                   Size |-> NumberField(b, "size"), Owner |-> StringField(b, "owner"),
                   AppraisedValue |-> NumberField(b, "appraisedValue")]]
    ELSE [err |-> Errorf("json: cannot unmarshal", <<>>), val |-> <<>>]

----------------------------------------------------------------------------
(* strconv                                                                 *)

IsDigit(c) == c >= 48 /\ c <= 57

RECURSIVE DigitsValue(_)
DigitsValue(ds) ==
    IF Len(ds) = 0 THEN 0
    ELSE 10 * DigitsValue(SubSeq(ds, 1, Len(ds) - 1)) + (ds[Len(ds)] - 48)

Unsigned(s) == IF Len(s) > 0 /\ s[1] \in {43, 45} THEN Tail(s) ELSE s
Negative(s) == Len(s) > 0 /\ s[1] = 45

\* strconv.ParseFloat(s, 64) on decimal text with at most one fractional digit,
\* and on the spellings of infinity: [err, val], val in tenths.
ParseFloat(s) ==
    LET u    == Unsigned(s)
        dots == {i \in DOMAIN u : u[i] = 46}
        dot  == IF dots = {} THEN Len(u) + 1 ELSE CHOOSE i \in dots : TRUE
        ip   == SubSeq(u, 1, dot - 1)
        fp   == SubSeq(u, dot + 1, Len(u))
        mag  == 10 * DigitsValue(ip) + DigitsValue(fp)
    IN  IF u \in {<<73, 110, 102>>, <<105, 110, 102>>}
        THEN [err |-> Nil, val |-> IF Negative(s) THEN NegInf ELSE Inf]
        ELSE IF /\ \A i \in DOMAIN u : IsDigit(u[i]) \/ u[i] = 46
                /\ Cardinality(dots) <= 1
                /\ Len(ip) + Len(fp) > 0
                /\ Len(fp) <= 1
        THEN [err |-> Nil, val |-> IF Negative(s) THEN 0 - mag ELSE mag]
        ELSE [err |-> Errorf("strconv.ParseFloat: invalid syntax", s), val |-> 0]

\* strconv.Atoi(s): [err, val].
Atoi(s) ==
    LET u == Unsigned(s)
    IN  IF Len(u) > 0 /\ \A i \in DOMAIN u : IsDigit(u[i])
        THEN [err |-> Nil, val |-> IF Negative(s) THEN 0 - DigitsValue(u) ELSE DigitsValue(u)]
        ELSE [err |-> Errorf("strconv.Atoi: invalid syntax", s), val |-> 0]

----------------------------------------------------------------------------
(* The ledger stub                                                         *)

\* stub.GetState / GetPrivateData: the bytes under key, nil (<<>>) when absent.
GetState(st, key) == IF key \in DOMAIN st THEN st[key] ELSE <<>>

\* (mutant) the write also leaves a copy under key + "~"
PutStateAndCopy(st, key, value) ==
    [k \in DOMAIN st \cup {key, key \o <<126>>} |->
        IF k \in {key, key \o <<126>>} THEN value ELSE st[k]]

\* stub.PutState / PutPrivateData: the store with key set to value.
PutState(st, key, value) ==
    [k \in DOMAIN st \cup {key} |-> IF k = key THEN value ELSE st[k]]

\* (mutant) every key is removed
DelStateAll(st, key) == [k \in {} |-> <<>>]

\* stub.DelState: the store without key.
DelState(st, key) == [k \in DOMAIN st \ {key} |-> st[k]]

\* The keys of S in ascending bytewise order.
RECURSIVE SortedKeys(_)
SortedKeys(S) ==
    IF S = {} THEN <<>>
    ELSE LET m == CHOOSE k \in S : \A j \in S : StrLeq(k, j)
         IN  <<m>> \o SortedKeys(S \ {m})

\* stub.GetStateByRange(startKey, endKey): the entries with
\* startKey <= key < endKey, in key order, as [Key, Value] records.
GetStateByRange(st, startKey, endKey) ==
    LET ks == SortedKeys({k \in DOMAIN st : StrLeq(startKey, k) /\ StrLess(k, endKey)})
    IN  [i \in 1..Len(ks) |-> [Key |-> ks[i], Value |-> st[ks[i]]]]

----------------------------------------------------------------------------
(* The caller's identity                                                   *)

\* What ci.GetAttributeValue("role") returns: (val, found, err).
AttrErr    == [val |-> "", found |-> FALSE, err |-> TRUE]
AttrAbsent == [val |-> "", found |-> FALSE, err |-> FALSE]
Attr(v)    == [val |-> v, found |-> TRUE, err |-> FALSE]

hasRole(v, caller, role) ==
    IF v = "bigdatacc"
    THEN IF caller.role.err THEN TRUE
         ELSE IF ~caller.role.found THEN TRUE
         ELSE caller.role.val = role
    ELSE IF caller.role.err \/ ~caller.role.found THEN FALSE
         ELSE caller.role.val = role

\* bigdatacc: the client's ID, (clientID, err) from GetID.
isCaller(caller, id) ==
    IF caller.cid.err THEN FALSE ELSE caller.cid.id = id

----------------------------------------------------------------------------
(* Invocations                                                             *)

\* opened, closed: the iterators the call created and released; read: the
\* number of iter.Next() calls it made.
Call(op, caller, args, err, ret, opened, closed, read) ==
    [op |-> op, caller |-> caller, args |-> args, err |-> err, ret |-> ret,
     opened |-> opened, closed |-> closed, read |-> read]

\* The partition that holds Participant records.
FisherStore == IF variant = "bigdatacc" THEN state ELSE priv

RegisterFisher(caller, id, name, govtId) ==
    LET f == [ID |-> id, Name |-> name, GovtID |-> govtId, Role |-> <<102, 105, 115, 104, 101, 114>>]
        b == MarshalFisher(f)
        args == <<id, name, govtId>>
    IN  IF ~hasRole(variant, caller, "authority")
        THEN /\ last' = Call("RegisterFisher", caller, args,
                             Errorf("only authority can register fishers", <<>>), <<>>, 0, 0, 0)
             /\ UNCHANGED <<variant, state, priv>>
        ELSE /\ IF variant = "bigdatacc"
                THEN state' = PutState(state, FISHER_ \o id, b) /\ priv' = priv
                ELSE priv' = PutState(priv, FISHER_ \o id, b) /\ state' = state
             /\ last' = Call("RegisterFisher", caller, args, Nil, <<>>, 0, 0, 0)
             /\ UNCHANGED variant

\* What GetFisher returns in a given store: [err, ret].
GetFisherResult(st, fisherID) ==
    LET b == GetState(st, FISHER_ \o fisherID)
        u == UnmarshalFisher(b)
    IN  IF b = <<>> THEN [err |-> Errorf("fisher %s does not exist", fisherID), ret |-> <<>>]
        ELSE IF IsErr(u.err) THEN [err |-> u.err, ret |-> <<>>]
        ELSE [err |-> Nil, ret |-> <<u.val>>]

\* (mutant) a read that consumes the record
GetFisherOnce(caller, fisherID) ==
    LET r == GetFisherResult(FisherStore, fisherID)
    IN  /\ last' = Call("GetFisher", caller, <<fisherID>>, r.err, r.ret, 0, 0, 0)
        /\ state' = DelState(state, FISHER_ \o fisherID)
        /\ priv' = DelState(priv, FISHER_ \o fisherID)
        /\ UNCHANGED variant

GetFisher(caller, fisherID) ==
    LET r == GetFisherResult(FisherStore, fisherID)
    IN  /\ last' = Call("GetFisher", caller, <<fisherID>>, r.err, r.ret, 0, 0, 0)
        /\ UNCHANGED <<variant, state, priv>>

----------------------------------------------------------------------------
(* Catch functions                                                         *)

\* The authorization check at the head of LogCatch. The fisheries variant has
\* it commented out.
LogCatchDenied(v, caller, fisherId) ==
    IF v = "bigdatacc"
    THEN ~hasRole(v, caller, "fisher") /\ ~isCaller(caller, fisherId)
    ELSE FALSE

\* What LogCatch returns and the world state it leaves: [err, st].
LogCatchResult(v, st, caller, catchId, fisherId, species, weightKgStr, date) ==
    LET p == ParseFloat(weightKgStr)
        c == [CatchID |-> catchId, FisherID |-> fisherId, Species |-> species,
              WeightKg |-> p.val, Date |-> date]
        m == MarshalCatch(c)
    IN  IF LogCatchDenied(v, caller, fisherId)
        THEN [err |-> Errorf("only the fisher can log their catch", <<>>), st |-> st]
        ELSE IF IsErr(p.err)
        THEN [err |-> Errorf("invalid weightKg", weightKgStr), st |-> st]
        ELSE IF IsErr(m.err)
        THEN [err |-> m.err, st |-> st]
        ELSE [err |-> Nil, st |-> PutState(st, CATCH_ \o catchId, m.b)]

LogCatch(caller, catchId, fisherId, species, weightKgStr, date) ==
    LET r == LogCatchResult(variant, state, caller, catchId, fisherId, species, weightKgStr, date)
    IN  /\ state' = r.st
        /\ last' = Call("LogCatch", caller, <<catchId, fisherId, species, weightKgStr, date>>,
                        r.err, <<>>, 0, 0, 0)
        /\ UNCHANGED <<variant, priv>>

\* (mutant) the nil check is left out: an absent key decodes to the zero Catch
GetCatchOrZero(st, catchId) ==
    LET u == UnmarshalCatch(GetState(st, CATCH_ \o catchId))
    IN  [err |-> u.err, ret |-> <<u.val>>]

GetCatchResult(st, catchId) ==
    LET b == GetState(st, CATCH_ \o catchId)
        u == UnmarshalCatch(b)
    IN  IF b = <<>> THEN [err |-> Errorf("catch %s not found", catchId), ret |-> <<>>]
        ELSE IF IsErr(u.err) THEN [err |-> u.err, ret |-> <<>>]
        ELSE [err |-> Nil, ret |-> <<u.val>>]

\* bigdatacc only.
GetCatch(caller, catchId) ==
    LET r == GetCatchResult(state, catchId)
    IN  /\ variant = "bigdatacc"
        /\ last' = Call("GetCatch", caller, <<catchId>>, r.err, r.ret, 0, 0, 0)
        /\ UNCHANGED <<variant, state, priv>>

----------------------------------------------------------------------------
(* Batch functions                                                         *)

\* (mutant) the URL does not name the batch
QRCodeURLOfSite(v, batchId) ==
    IF v = "bigdatacc"
    THEN <<104, 116, 116, 112, 115, 58, 47, 47, 101, 120, 97, 109, 112, 108, 101,
           46, 111, 114, 103, 47, 98, 97, 116, 99, 104, 47>>
    ELSE <<104, 116, 116, 112, 115, 58, 47, 47, 103, 101, 116, 114, 101, 101, 99,
           104, 46, 101, 120, 97, 109, 112, 108, 101, 46, 111, 114, 103, 47, 98,
           97, 116, 99, 104, 47>>

\* fmt.Sprintf("https://example.org/batch/%s", batchId), and the host of the
\* fisheries variant
QRCodeURL(v, batchId) ==
    IF v = "bigdatacc"
    THEN <<104, 116, 116, 112, 115, 58, 47, 47, 101, 120, 97, 109, 112, 108, 101,
           46, 111, 114, 103, 47, 98, 97, 116, 99, 104, 47>> \o batchId
    ELSE <<104, 116, 116, 112, 115, 58, 47, 47, 103, 101, 116, 114, 101, 101, 99,
           104, 46, 101, 120, 97, 109, 112, 108, 101, 46, 111, 114, 103, 47, 98,
           97, 116, 99, 104, 47>> \o batchId

CreateBatch(caller, batchId, catchIds, processorId, date) ==
    LET batch == [BatchID |-> batchId, CatchIDs |-> catchIds, ProcessorID |-> processorId,
                  Date |-> date, QRCodeURL |-> QRCodeURL(variant, batchId)]
        args == <<batchId, catchIds, processorId, date>>
    IN  IF ~hasRole(variant, caller, "processor")
        THEN /\ last' = Call("CreateBatch", caller, args,
                             Errorf("only processor can create batches", <<>>), <<>>, 0, 0, 0)
             /\ UNCHANGED <<variant, state, priv>>
        ELSE /\ state' = PutState(state, BATCH_ \o batchId, MarshalBatch(batch))
             /\ last' = Call("CreateBatch", caller, args, Nil, <<>>, 0, 0, 0)
             /\ UNCHANGED <<variant, priv>>

\* [err, ret]: the stored bytes as they are.
TrackBatchResult(st, batchId) ==
    LET b == GetState(st, BATCH_ \o batchId)
    IN  IF b = <<>> THEN [err |-> Errorf("batch %s not found", batchId), ret |-> <<>>]
        ELSE [err |-> Nil, ret |-> <<b>>]

TrackBatch(caller, batchId) ==
    LET r == TrackBatchResult(state, batchId)
    IN  /\ last' = Call("TrackBatch", caller, <<batchId>>, r.err, r.ret, 0, 0, 0)
        /\ UNCHANGED <<variant, state, priv>>

----------------------------------------------------------------------------
(* Order functions                                                         *)

PlaceOrder(caller, orderId, batchId, buyerId, date) ==
    LET o == [OrderID |-> orderId, BatchID |-> batchId, BuyerID |-> buyerId,
              Status |-> <<112, 108, 97, 99, 101, 100>>, Date |-> date]
        args == <<orderId, batchId, buyerId, date>>
    IN  IF ~hasRole(variant, caller, "buyer")
        THEN /\ last' = Call("PlaceOrder", caller, args,
                             Errorf("only buyer can place orders", <<>>), <<>>, 0, 0, 0)
             /\ UNCHANGED <<variant, state, priv>>
        ELSE /\ state' = PutState(state, ORDER_ \o orderId, MarshalOrder(o))
             /\ last' = Call("PlaceOrder", caller, args, Nil, <<>>, 0, 0, 0)
             /\ UNCHANGED <<variant, priv>>

----------------------------------------------------------------------------
(* Reporting                                                               *)

\* (mutant) the end date is exclusive
RECURSIVE ReportLoopExclusive(_, _, _, _, _, _)
ReportLoopExclusive(results, i, out, startDate, endDate, failAt) ==
    IF i > Len(results) THEN [err |-> Nil, out |-> out, read |-> i - 1]
    ELSE IF failAt = i
    THEN [err |-> Errorf("iterator: next failed", <<>>), out |-> <<>>, read |-> i]
    ELSE LET u == UnmarshalCatch(results[i].Value)
         IN  IF IsErr(u.err) THEN [err |-> u.err, out |-> <<>>, read |-> i]
             ELSE IF StrLeq(startDate, u.val.Date) /\ StrLess(u.val.Date, endDate)
             THEN ReportLoopExclusive(results, i + 1, Append(out, u.val), startDate, endDate, failAt)
             ELSE ReportLoopExclusive(results, i + 1, out, startDate, endDate, failAt)

\* (mutant) a record that does not decode is skipped and the scan goes on
RECURSIVE ReportScanLenient(_, _, _, _, _, _)
ReportScanLenient(results, i, out, startDate, endDate, failAt) ==
    IF i > Len(results) THEN [err |-> Nil, out |-> out, read |-> i - 1]
    ELSE IF failAt = i
    THEN [err |-> Errorf("iterator: next failed", <<>>), out |-> <<>>, read |-> i]
    ELSE LET u == UnmarshalCatch(results[i].Value)
         IN  IF IsErr(u.err)
             THEN ReportScanLenient(results, i + 1, out, startDate, endDate, failAt)
             ELSE IF StrLeq(startDate, u.val.Date) /\ StrLeq(u.val.Date, endDate)
             THEN ReportScanLenient(results, i + 1, Append(out, u.val), startDate, endDate, failAt)
             ELSE ReportScanLenient(results, i + 1, out, startDate, endDate, failAt)

\* The loop of GenerateReport from entry i on, with `out` accumulated so far.
\* failAt is the step at which iter.Next() reports a failure (0: never).
RECURSIVE ReportLoop(_, _, _, _, _, _)
ReportLoop(results, i, out, startDate, endDate, failAt) ==
    IF i > Len(results) THEN [err |-> Nil, out |-> out, read |-> i - 1]
    ELSE IF failAt = i
    THEN [err |-> Errorf("iterator: next failed", <<>>), out |-> <<>>, read |-> i]
    ELSE LET u == UnmarshalCatch(results[i].Value)
         IN  IF IsErr(u.err) THEN [err |-> u.err, out |-> <<>>, read |-> i]
             ELSE IF StrLeq(startDate, u.val.Date) /\ StrLeq(u.val.Date, endDate)
             THEN ReportLoop(results, i + 1, Append(out, u.val), startDate, endDate, failAt)
             ELSE ReportLoop(results, i + 1, out, startDate, endDate, failAt)

\* json.Marshal of the accumulated []Catch: [err, b]. As for a single Catch, a
\* weight that is not a finite number is an unsupported value.
MarshalReport(out) ==
    IF \E i \in DOMAIN out : out[i].WeightKg \in {Inf, NegInf}
    THEN [err |-> Errorf("json: unsupported value", <<>>), b |-> <<>>]
    ELSE [err |-> Nil, b |-> MarshalCatches(out)]

\* (mutant) Close is called on the way out of a successful scan only
CloseAtEnd(r) == [r EXCEPT !.closed = IF IsErr(r.err) THEN 0 ELSE r.opened]

\* defer iter.Close(): whatever the body returns after the iterator was
\* obtained, the iterator is closed before the call returns.
DeferClose(r) == [r EXCEPT !.closed = r.opened]

\* [err, ret, opened, closed, read]: ret is the payload, opened and closed count
\* the iterators the call created and released, read the iter.Next() calls.
\* failAt = -1: GetStateByRange itself fails and no iterator exists.
GenerateReportResult(v, st, caller, startDate, endDate, failAt) ==
    LET iter == GetStateByRange(st, CATCH_, CATCH_ \o Tilde)
        r    == ReportLoop(iter, 1, <<>>, startDate, endDate, failAt)
        m    == MarshalReport(r.out)
    IN  IF ~hasRole(v, caller, "authority")
        THEN [err |-> Errorf("only authority can generate reports", <<>>), ret |-> <<>>,
              opened |-> 0, closed |-> 0, read |-> 0]
        ELSE IF failAt = 0 - 1
        THEN [err |-> Errorf("GetStateByRange failed", <<>>), ret |-> <<>>,
              opened |-> 0, closed |-> 0, read |-> 0]
        ELSE DeferClose(
               IF IsErr(r.err)
               THEN [err |-> r.err, ret |-> <<>>, opened |-> 1, closed |-> 0, read |-> r.read]
               ELSE IF IsErr(m.err)
               THEN [err |-> m.err, ret |-> <<>>, opened |-> 1, closed |-> 0, read |-> r.read]
               ELSE [err |-> Nil, ret |-> <<m.b>>, opened |-> 1, closed |-> 0, read |-> r.read])

GenerateReport(caller, startDate, endDate, failAt) ==
    LET r == GenerateReportResult(variant, state, caller, startDate, endDate, failAt)
    IN  /\ last' = Call("GenerateReport", caller, <<startDate, endDate, failAt>>,
                        r.err, r.ret, r.opened, r.closed, r.read)
        /\ UNCHANGED <<variant, state, priv>>

----------------------------------------------------------------------------
(* Asset helpers (bigdatacc only)                                          *)

CreateAssetResult(st, id, color, sizeStr, owner, appraisedValueStr) ==
    LET size   == Atoi(sizeStr)
        appVal == Atoi(appraisedValueStr)
        a == [ID |-> id, Color |-> color, Size |-> size.val, Owner |-> owner,
              AppraisedValue |-> appVal.val]
    IN  IF IsErr(size.err) THEN [err |-> Errorf("invalid size", sizeStr), st |-> st]
        ELSE IF IsErr(appVal.err)
        THEN [err |-> Errorf("invalid appraisedValue", appraisedValueStr), st |-> st]
        ELSE [err |-> Nil, st |-> PutState(st, ASSET_ \o id, MarshalAsset(a))]

CreateAsset(caller, id, color, sizeStr, owner, appraisedValueStr) ==
    LET r == CreateAssetResult(state, id, color, sizeStr, owner, appraisedValueStr)
    IN  /\ variant = "bigdatacc"
        /\ state' = r.st
        /\ last' = Call("CreateAsset", caller, <<id, color, sizeStr, owner, appraisedValueStr>>,
                        r.err, <<>>, 0, 0, 0)
        /\ UNCHANGED <<variant, priv>>

ReadAssetResult(st, id) ==
    LET b == GetState(st, ASSET_ \o id)
        u == UnmarshalAsset(b)
    IN  IF b = <<>> THEN [err |-> Errorf("asset %s not found", id), ret |-> <<>>]
        ELSE IF IsErr(u.err) THEN [err |-> u.err, ret |-> <<>>]
        ELSE [err |-> Nil, ret |-> <<u.val>>]

ReadAsset(caller, id) ==
    LET r == ReadAssetResult(state, id)
    IN  /\ variant = "bigdatacc"
        /\ last' = Call("ReadAsset", caller, <<id>>, r.err, r.ret, 0, 0, 0)
        /\ UNCHANGED <<variant, state, priv>>

\* (mutant) an absent asset is created with the new owner
TransferAssetOrCreate(st, assetKey, newOwner) ==
    LET u == UnmarshalAsset(GetState(st, ASSET_ \o assetKey))
    IN  [err |-> Nil,
         st |-> PutState(st, ASSET_ \o assetKey,
                         MarshalAsset([u.val EXCEPT !.Owner = newOwner]))]

TransferAssetResult(st, assetKey, newOwner) ==
    LET b == GetState(st, ASSET_ \o assetKey)
        u == UnmarshalAsset(b)
    IN  IF b = <<>> THEN [err |-> Errorf("asset %s not found", assetKey), st |-> st]
        ELSE IF IsErr(u.err) THEN [err |-> u.err, st |-> st]
        ELSE [err |-> Nil,
              st |-> PutState(st, ASSET_ \o assetKey,
                              MarshalAsset([u.val EXCEPT !.Owner = newOwner]))]

TransferAsset(caller, assetKey, newOwner) ==
    LET r == TransferAssetResult(state, assetKey, newOwner)
    IN  /\ variant = "bigdatacc"
        /\ state' = r.st
        /\ last' = Call("TransferAsset", caller, <<assetKey, newOwner>>, r.err, <<>>, 0, 0, 0)
        /\ UNCHANGED <<variant, priv>>

\* (mutant) the record is built anew from the arguments, without an owner
UpdateAssetAnew(st, assetKey, color, sizeStr, appraisedValueStr) ==
    LET b == GetState(st, ASSET_ \o assetKey)
        size   == Atoi(sizeStr)
        appVal == Atoi(appraisedValueStr)
    IN  IF b = <<>> THEN [err |-> Errorf("asset %s not found", assetKey), st |-> st]
        ELSE IF IsErr(size.err) THEN [err |-> size.err, st |-> st]
        ELSE IF IsErr(appVal.err) THEN [err |-> appVal.err, st |-> st]
        ELSE [err |-> Nil,
              st |-> PutState(st, ASSET_ \o assetKey,
                              MarshalAsset([ID |-> assetKey, Color |-> color, Size |-> size.val,
                                            Owner |-> <<>>, AppraisedValue |-> appVal.val]))]

UpdateAssetResult(st, assetKey, color, sizeStr, appraisedValueStr) ==
    LET b == GetState(st, ASSET_ \o assetKey)
        u == UnmarshalAsset(b)
        size   == Atoi(sizeStr)
        appVal == Atoi(appraisedValueStr)
    IN  IF b = <<>> THEN [err |-> Errorf("asset %s not found", assetKey), st |-> st]
        ELSE IF IsErr(u.err) THEN [err |-> u.err, st |-> st]
        ELSE IF IsErr(size.err) THEN [err |-> size.err, st |-> st]
        ELSE IF IsErr(appVal.err) THEN [err |-> appVal.err, st |-> st]
        ELSE [err |-> Nil,
              st |-> PutState(st, ASSET_ \o assetKey,
                              MarshalAsset([u.val EXCEPT !.Color = color, !.Size = size.val,
                                                         !.AppraisedValue = appVal.val]))]

UpdateAsset(caller, assetKey, color, sizeStr, appraisedValueStr) ==
    LET r == UpdateAssetResult(state, assetKey, color, sizeStr, appraisedValueStr)
    IN  /\ variant = "bigdatacc"
        /\ state' = r.st
        /\ last' = Call("UpdateAsset", caller, <<assetKey, color, sizeStr, appraisedValueStr>>,
                        r.err, <<>>, 0, 0, 0)
        /\ UNCHANGED <<variant, priv>>

DeleteAssetResult(st, assetKey) ==
    LET b == GetState(st, ASSET_ \o assetKey)
    IN  IF b = <<>> THEN [err |-> Errorf("asset %s not found", assetKey), st |-> st]
        ELSE [err |-> Nil, st |-> DelState(st, ASSET_ \o assetKey)]

DeleteAsset(caller, assetKey) ==
    LET r == DeleteAssetResult(state, assetKey)
    IN  /\ variant = "bigdatacc"
        /\ state' = r.st
        /\ last' = Call("DeleteAsset", caller, <<assetKey>>, r.err, <<>>, 0, 0, 0)
        /\ UNCHANGED <<variant, priv>>

----------------------------------------------------------------------------
(* Inputs                                                                  *)

\* The number of identifiers "1", "2", ... per entity type, and the number of
\* records the ledger holds in the specification of the whole contract.
NumIds == 2
MaxRecords == 2

Variants == {"bigdatacc", "fisheries"}
RoleAttrs == {AttrErr, AttrAbsent, Attr("authority"), Attr("fisher"),
              Attr("processor"), Attr("buyer")}

Ids == {<<48 + i>> : i \in 1..NumIds}
\* "~1" sorts after the scan sentinel
CatchIds == Ids \cup {<<126, 49>>}

\* GetID of the caller: an identifier, or a failure
NoId == [id |-> <<>>, err |-> TRUE]
CallerIds == {[id |-> i, err |-> FALSE] : i \in Ids} \cup {NoId}
Callers == [role : RoleAttrs, cid : CallerIds]
\* Only LogCatch reads the caller's ID; the other handlers read the role alone.
RoleCallers == [role : RoleAttrs, cid : {NoId}]
\* The read operations read nothing of the caller.
Anyone == [role |-> AttrAbsent, cid |-> NoId]
FisherOne == [role |-> Attr("fisher"), cid |-> [id |-> <<49>>, err |-> FALSE]]

Names == {<<97>>, <<98>>}
GovtIds == {<<103>>}
Tilapia == <<84>>
\* "10.5", "-1.0", "0", "abc", "Inf"
Weights == {<<49, 48, 46, 53>>, <<45, 49, 46, 48>>, <<48>>, <<97, 98, 99>>, <<73, 110, 102>>}
\* "10" sorts before "9" as a string
Dates == {<<49, 48>>, <<57>>}
CatchIdLists == {<<>>, <<<<49>>, <<49>>>>, <<<<50>>, <<57>>>>}
Processor == <<80>>
Buyer == <<66>>
Colors == {<<98>>, <<114>>}
Owners == {<<111>>, <<112>>}

Init ==
    /\ variant \in Variants
    /\ state = <<>>
    /\ priv = <<>>
    /\ last = Call("none", Anyone, <<>>, Nil, <<>>, 0, 0, 0)

----------------------------------------------------------------------------
(* The whole contract, on a ledger of at most MaxRecords records           *)

\* The ledger has room for what the step writes.
HasRoom == Cardinality(DOMAIN state') + Cardinality(DOMAIN priv') <= MaxRecords

Next ==
    \/ \E c \in RoleCallers, n \in Names : RegisterFisher(c, <<49>>, n, <<103>>) /\ HasRoom
    \/ GetFisher(Anyone, <<49>>) /\ HasRoom
    \/ \E r \in {Attr("fisher"), Attr("buyer")}, f \in Ids,
          w \in {<<49, 48, 46, 53>>, <<97, 98, 99>>}, d \in Dates :
          LogCatch([FisherOne EXCEPT !.role = r], <<49>>, f, Tilapia, w, d) /\ HasRoom
    \/ GetCatch(Anyone, <<49>>) /\ HasRoom
    \/ \E c \in RoleCallers, l \in {<<>>, <<<<49>>, <<49>>>>} :
          CreateBatch(c, <<49>>, l, Processor, <<57>>) /\ HasRoom
    \/ TrackBatch(Anyone, <<49>>) /\ HasRoom
    \/ \E c \in RoleCallers : PlaceOrder(c, <<49>>, <<49>>, Buyer, <<57>>) /\ HasRoom
    \/ \E c \in RoleCallers, e \in Dates : GenerateReport(c, <<49, 48>>, e, 0) /\ HasRoom
    \/ \E co \in Colors, sz \in {<<53>>, <<120>>}, o \in Owners :
          CreateAsset(Anyone, <<49>>, co, sz, o, <<53>>) /\ HasRoom
    \/ ReadAsset(Anyone, <<49>>) /\ HasRoom
    \/ \E o \in Owners : TransferAsset(Anyone, <<49>>, o) /\ HasRoom
    \/ \E co \in Colors, sz \in {<<45, 51>>, <<120>>} :
          UpdateAsset(Anyone, <<49>>, co, sz, <<53>>) /\ HasRoom
    \/ DeleteAsset(Anyone, <<49>>) /\ HasRoom

Spec == Init /\ [][Next]_vars

----------------------------------------------------------------------------
(* Participants: every caller, every identifier and name, among them the   *)
(* empty string and a name that is not UTF-8 text                          *)

FisherIds == Ids \cup {<<>>}
FisherNames == {<<97>>, <<>>, <<255>>}

NextFisher ==
    \/ \E c \in RoleCallers, id \in FisherIds, n \in FisherNames, g \in GovtIds :
          RegisterFisher(c, id, n, g)
    \/ \E id \in FisherIds : GetFisher(Anyone, id)

SpecFisher == Init /\ [][NextFisher]_vars

----------------------------------------------------------------------------
(* Harvest events: every caller identity and every weight                  *)

NextCatch ==
    \/ \E c \in Callers, f \in Ids, w \in Weights :
          LogCatch(c, <<49>>, f, Tilapia, w, <<57>>)
    \/ GetCatch(Anyone, <<49>>)

SpecCatch == Init /\ [][NextCatch]_vars

----------------------------------------------------------------------------
(* Aggregates and orders: every caller role                                *)

NextGate ==
    \/ \E c \in RoleCallers, id \in Ids, l \in CatchIdLists :
          CreateBatch(c, id, l, Processor, <<57>>)
    \/ \E id \in Ids : TrackBatch(Anyone, id)
    \/ \E c \in RoleCallers, id \in Ids : PlaceOrder(c, id, <<49>>, Buyer, <<57>>)

SpecGate == Init /\ [][NextGate]_vars

----------------------------------------------------------------------------
(* Reporting: every date range over every set of stored events             *)

NextReport ==
    \/ \E id \in CatchIds, d \in Dates :
          LogCatch(FisherOne, id, <<49>>, Tilapia, <<49, 48, 46, 53>>, d)
    \/ CreateBatch([Anyone EXCEPT !.role = Attr("processor")], <<49>>, <<>>, Processor, <<57>>)
    \/ PlaceOrder([Anyone EXCEPT !.role = Attr("buyer")], <<49>>, <<49>>, Buyer, <<57>>)
    \/ \E r \in {Attr("authority"), Attr("fisher"), AttrAbsent}, s \in Dates, e \in Dates :
          GenerateReport([Anyone EXCEPT !.role = r], s, e, 0)

SpecReport == Init /\ [][NextReport]_vars

----------------------------------------------------------------------------
(* Scanning a ledger that holds records that do not decode, with a store   *)
(* that may fail at any step of the scan                                   *)

\* A HarvestEvent whose weightKg is a JSON string: json.Unmarshal into the
\* float64 field fails.
Undecodable(id) ==
    << <<"catchId", JString(id)>>, <<"fisherId", JString(<<49>>)>>,
       <<"species", JString(Tilapia)>>, <<"weightKg", JString(<<49, 48, 46, 53>>)>>,
       <<"date", JString(<<57>>)>> >>

\* The world state outlives the contract that wrote it: a record put on the
\* ledger directly, as the test suite seeds its stub (stub.PutState).
SeedRecord(key, value) ==
    /\ state' = PutState(state, key, value)
    /\ last' = Call("SeedRecord", Anyone, <<key>>, Nil, <<>>, 0, 0, 0)
    /\ UNCHANGED <<variant, priv>>

\* -1: GetStateByRange fails; 0: no failure; k: the k-th iter.Next() fails
FailPoints == (0 - 1)..NumIds

NextScan ==
    \/ \E id \in CatchIds, d \in Dates :
          LogCatch(FisherOne, id, <<49>>, Tilapia, <<49, 48, 46, 53>>, d)
    \/ \E id \in Ids : SeedRecord(CATCH_ \o id, Undecodable(id))
    \/ \E r \in {Attr("authority"), Attr("fisher")}, f \in FailPoints :
          GenerateReport([Anyone EXCEPT !.role = r], <<49, 48>>, <<57>>, f)

SpecScan == Init /\ [][NextScan]_vars

----------------------------------------------------------------------------
(* Aggregates: identifiers that are text and identifiers that are not,     *)
(* lists of event identifiers that exist and that do not                   *)

\* "1", the byte FF, and the replacement rune U+FFFD
BatchIds == {<<49>>, <<255>>, <<239, 191, 189>>}

NextBatch ==
    \/ LogCatch(FisherOne, <<49>>, <<49>>, Tilapia, <<49, 48, 46, 53>>, <<57>>)
    \/ \E r \in {Attr("processor"), Attr("buyer")}, id \in BatchIds, l \in CatchIdLists :
          CreateBatch([Anyone EXCEPT !.role = r], id, l, Processor, <<57>>)
    \/ \E id \in BatchIds : TrackBatch(Anyone, id)

SpecBatch == Init /\ [][NextBatch]_vars

----------------------------------------------------------------------------
(* The life of the records: every operation, one record of each ledger     *)
(* entity and NumIds assets, lookups of identifiers that were never stored *)

\* A caller with the role the operation requires, and one with no role
\* attribute.
Gate(role) == {[Anyone EXCEPT !.role = Attr(role)], Anyone}

NextLedger ==
    \/ \E c \in Gate("authority") : RegisterFisher(c, <<49>>, <<97>>, <<103>>) /\ HasRoom
    \/ \E id \in Ids : GetFisher(Anyone, id) /\ HasRoom
    \/ \E c \in {FisherOne, [Anyone EXCEPT !.role = Attr("buyer")]} :
          LogCatch(c, <<49>>, <<49>>, Tilapia, <<49, 48, 46, 53>>, <<57>>) /\ HasRoom
    \/ \E id \in Ids : GetCatch(Anyone, id) /\ HasRoom
    \/ \E c \in Gate("processor") : CreateBatch(c, <<49>>, <<>>, Processor, <<57>>) /\ HasRoom
    \/ \E id \in Ids : TrackBatch(Anyone, id) /\ HasRoom
    \/ \E c \in Gate("buyer"), d \in Dates : PlaceOrder(c, <<49>>, <<49>>, Buyer, d) /\ HasRoom
    \/ \E c \in Gate("authority") : GenerateReport(c, <<49, 48>>, <<57>>, 0) /\ HasRoom
    \/ \E id \in Ids, sz \in {<<53>>, <<120>>} :
          CreateAsset(Anyone, id, <<98>>, sz, <<111>>, <<53>>) /\ HasRoom
    \/ \E id \in Ids : ReadAsset(Anyone, id) /\ HasRoom
    \/ \E id \in Ids : TransferAsset(Anyone, id, <<112>>) /\ HasRoom
    \/ \E id \in Ids, sz \in {<<45, 51>>, <<120>>} :
          UpdateAsset(Anyone, id, <<114>>, sz, <<53>>) /\ HasRoom
    \/ \E id \in Ids : DeleteAsset(Anyone, id) /\ HasRoom

SpecLedger == Init /\ [][NextLedger]_vars

----------------------------------------------------------------------------
(* Assets: every update of every field, with numbers that parse and        *)
(* numbers that do not                                                     *)

\* "-3", "x" for the size; "7", "y" for the appraised value
NextAsset ==
    \/ \E id \in Ids, sz \in {<<53>>, <<120>>} :
          CreateAsset(Anyone, id, <<98>>, sz, <<111>>, <<53>>)
    \/ \E id \in Ids : ReadAsset(Anyone, id)
    \/ \E id \in Ids, o \in Owners : TransferAsset(Anyone, id, o)
    \/ \E id \in Ids, sz \in {<<45, 51>>, <<120>>}, av \in {<<55>>, <<121>>} :
          UpdateAsset(Anyone, id, <<114>>, sz, av)
    \/ \E id \in Ids : DeleteAsset(Anyone, id)

SpecAsset == Init /\ [][NextAsset]_vars

----------------------------------------------------------------------------
(* Properties                                                              *)

\* The caller carries a role attribute whose value is not `role`.
HasOtherRole(caller, role) ==
    /\ ~caller.role.err
    /\ caller.role.found
    /\ caller.role.val # role

\* The identity was read and its role is not `role`: another value, or none
\* at all (GetAttributeValue then returns the empty string).
LacksRole(caller, role) == ~caller.role.err /\ caller.role.val # role

\* The caller carries no readable role attribute.
HasNoRole(caller) == caller.role.err \/ ~caller.role.found

fisher == <<102, 105, 115, 104, 101, 114>>

\* C1: RegisterFisher by a caller whose role is not "authority" returns the
\* authorization error and changes neither the world state nor the private
\* collection.
C1_DeniedRegisterWritesNothing ==
    [][(last'.op = "RegisterFisher" /\ LacksRole(last'.caller, "authority"))
         => /\ ErrMsg(last'.err) = "only authority can register fishers"
            /\ state' = state
            /\ priv' = priv]_vars

\* C1 for the callers that carry a role attribute: the part of it that holds
\* in both variants.
C1_OtherRoleDenied ==
    [][(last'.op = "RegisterFisher" /\ HasOtherRole(last'.caller, "authority"))
         => /\ ErrMsg(last'.err) = "only authority can register fishers"
            /\ state' = state
            /\ priv' = priv]_vars

\* Whether a record of the entity type that the create operation c writes
\* is stored under the identifier c names, in the stores st and pv.
Creates == {"RegisterFisher", "LogCatch", "CreateBatch", "PlaceOrder"}
RecordExists(v, st, pv, c) ==
    CASE c.op = "RegisterFisher" ->
            (FISHER_ \o c.args[1]) \in DOMAIN (IF v = "bigdatacc" THEN st ELSE pv)
      [] c.op = "LogCatch"    -> (CATCH_ \o c.args[1]) \in DOMAIN st
      [] c.op = "CreateBatch" -> (BATCH_ \o c.args[1]) \in DOMAIN st
      [] c.op = "PlaceOrder"  -> (ORDER_ \o c.args[1]) \in DOMAIN st
      [] OTHER -> FALSE

\* C2: a create operation called with an identifier under which a record of
\* its entity type is already stored returns an error.
C2_DuplicateCreateRejected ==
    [][(last'.op \in Creates /\ RecordExists(variant, state, priv, last'))
         => IsErr(last'.err)]_vars

\* C3: for a caller without a readable role attribute hasRole is false for
\* every role, and RegisterFisher, CreateBatch, PlaceOrder and GenerateReport
\* return an error and write nothing.
C3_NoRoleIsDenied ==
    [][(/\ last'.op \in {"RegisterFisher", "CreateBatch", "PlaceOrder", "GenerateReport"}
        /\ HasNoRole(last'.caller))
         => /\ \A r \in {"authority", "fisher", "processor", "buyer"} :
                  ~hasRole(variant, last'.caller, r)
            /\ IsErr(last'.err)
            /\ state' = state
            /\ priv' = priv]_vars

\* What C4 says of the state after RegisterFisher(id, name, govtId) by an
\* "authority" caller: the call has returned nil, the record lies in the
\* partition of the deployed variant and in no other, and GetFisher(id)
\* returns id, name, govtId and the role "fisher".
RegisteredAndReadBack ==
    /\ last.err = Nil
    /\ (FISHER_ \o last.args[1]) \in DOMAIN (IF variant = "bigdatacc" THEN state ELSE priv)
    /\ (FISHER_ \o last.args[1]) \notin DOMAIN (IF variant = "bigdatacc" THEN priv ELSE state)
    /\ GetFisherResult(FisherStore, last.args[1]) =
          [err |-> Nil,
           ret |-> <<[ID |-> last.args[1], Name |-> last.args[2],
                      GovtID |-> last.args[3], Role |-> fisher]>>]

\* Text: a string without a byte that no UTF-8 encoding contains.
IsText(s) == \A i \in DOMAIN s : s[i] # 255

\* C4 as claimed: for every id, name and govtId, RegisterFisher by an
\* "authority" caller succeeds and GetFisher(id) returns exactly that id, name
\* and govtId with role "fisher", from the partition that was written.
C4_RegisterThenGet ==
    (last.op = "RegisterFisher" /\ last.caller.role = Attr("authority"))
      => RegisteredAndReadBack

\* C4 as amended: the same for every id, name and govtId that are valid UTF-8
\* text; and a GetFisher call returns what the variant's partition holds.
C4_RegisterThenGetText ==
    /\ (/\ last.op = "RegisterFisher"
        /\ last.caller.role = Attr("authority")
        /\ \A i \in 1..3 : IsText(last.args[i]))
         => RegisteredAndReadBack
    /\ last.op = "GetFisher"
         => [err |-> last.err, ret |-> last.ret] =
               GetFisherResult(IF variant = "bigdatacc" THEN state ELSE priv, last.args[1])

\* C4 witness: the fisher "1" was registered by an authority while another
\* fisher was already stored.
C4_Witness ==
    /\ last.op = "RegisterFisher"
    /\ last.caller.role = Attr("authority")
    /\ last.args[1] = <<49>>
    /\ last.args[2] = <<97>>
    /\ GetFisherResult(FisherStore, <<49>>).ret[1].Name = <<97>>
    /\ (FISHER_ \o <<50>>) \in DOMAIN FisherStore

\* C5: LogCatch with a weight that does not parse, or parses to a value <= 0,
\* returns an error and leaves the world state as it was; with a weight that
\* parses to a positive (finite) number a call that passes the authorization
\* check returns nil and the stored record holds that number.
C5_WeightValidated ==
    [][last'.op = "LogCatch"
         => LET p == ParseFloat(last'.args[4])
            IN  IF IsErr(p.err) \/ p.val <= 0
                THEN IsErr(last'.err) /\ state' = state
                ELSE (p.val < Inf /\ ~LogCatchDenied(variant, last'.caller, last'.args[2]))
                       => /\ last'.err = Nil
                          /\ GetCatchResult(state', last'.args[1]).ret[1].WeightKg = p.val]_vars

\* C6: LogCatch by a caller whose role attribute is not "fisher" returns
\* "only the fisher can log their catch" and leaves the world state as it was,
\* whatever the caller's identifier.
C6_NonFisherRejected ==
    [][(last'.op = "LogCatch" /\ HasOtherRole(last'.caller, "fisher"))
         => /\ ErrMsg(last'.err) = "only the fisher can log their catch"
            /\ state' = state]_vars

\* C7: LogCatch by a caller with role "fisher" whose identifier is not the
\* fisherId argument returns "only the fisher can log their catch" and leaves
\* the world state as it was.
C7_OtherFisherRejected ==
    [][(/\ last'.op = "LogCatch"
        /\ last'.caller.role = Attr("fisher")
        /\ ~last'.caller.cid.err
        /\ last'.caller.cid.id # last'.args[2])
         => /\ ErrMsg(last'.err) = "only the fisher can log their catch"
            /\ state' = state]_vars

\* C8: CreateBatch by a caller whose role is not "processor" returns
\* "only processor can create batches", PlaceOrder by a caller whose role is
\* not "buyer" returns "only buyer can place orders", and in both cases the
\* stores are left as they were.
C8_FailClosed ==
    [][/\ (last'.op = "CreateBatch" /\ LacksRole(last'.caller, "processor"))
            => /\ ErrMsg(last'.err) = "only processor can create batches"
               /\ state' = state /\ priv' = priv
       /\ (last'.op = "PlaceOrder" /\ LacksRole(last'.caller, "buyer"))
            => /\ ErrMsg(last'.err) = "only buyer can place orders"
               /\ state' = state /\ priv' = priv]_vars

\* C8 for the callers that carry a role attribute: the part of it that holds
\* in both variants.
C8_OtherRoleDenied ==
    [][/\ (last'.op = "CreateBatch" /\ HasOtherRole(last'.caller, "processor"))
            => /\ ErrMsg(last'.err) = "only processor can create batches"
               /\ state' = state /\ priv' = priv
       /\ (last'.op = "PlaceOrder" /\ HasOtherRole(last'.caller, "buyer"))
            => /\ ErrMsg(last'.err) = "only buyer can place orders"
               /\ state' = state /\ priv' = priv]_vars

HasPrefix(k, p) == Len(k) >= Len(p) /\ SubSeq(k, 1, Len(p)) = p

\* The HarvestEvent records of the world state: what is stored under the
\* keys CATCH_ + id.
CatchRecords(st) ==
    {UnmarshalCatch(st[k]).val : k \in {x \in DOMAIN st : HasPrefix(x, CATCH_)}}

\* Those whose identifier is empty or begins with a byte below the sentinel.
ScannedCatchRecords(st) ==
    {c \in CatchRecords(st) : Len(c.CatchID) = 0 \/ c.CatchID[1] < Tilde[1]}

InDateRange(c, startDate, endDate) ==
    StrLeq(startDate, c.Date) /\ StrLeq(c.Date, endDate)

\* The payload of a report read back as a sequence of Catch records.
DecodeReport(payload) ==
    IF payload.t = "null" THEN <<>>
    ELSE [i \in DOMAIN payload.v |-> UnmarshalCatch(payload.v[i]).val]

\* rep lists exactly the records recs, each once, in ascending key order.
IsReportOf(rep, recs) ==
    /\ {rep[i] : i \in DOMAIN rep} = recs
    /\ Len(rep) = Cardinality(recs)
    /\ \A i, j \in DOMAIN rep :
          i < j => StrLess(CATCH_ \o rep[i].CatchID, CATCH_ \o rep[j].CatchID)

\* C9 as claimed: the report of an "authority" caller lists exactly the stored
\* HarvestEvent records with start <= date <= end, each once, in key order.
C9_ReportsEveryEvent ==
    (last.op = "GenerateReport" /\ last.caller.role = Attr("authority"))
      => /\ last.err = Nil
         /\ IsReportOf(DecodeReport(last.ret[1]),
                       {c \in CatchRecords(state) :
                           InDateRange(c, last.args[1], last.args[2])})

\* C9 as amended: the report lists exactly the stored HarvestEvent records
\* with start <= date <= end whose identifier is empty or begins with a byte
\* below "~", each once, in key order; the payload is null when there is none
\* and an array otherwise.
C9_ReportsScannedEvents ==
    (last.op = "GenerateReport" /\ last.caller.role = Attr("authority"))
      => /\ last.err = Nil
         /\ IsReportOf(DecodeReport(last.ret[1]),
                       {c \in ScannedCatchRecords(state) :
                           InDateRange(c, last.args[1], last.args[2])})
         /\ last.ret[1].t = (IF Len(DecodeReport(last.ret[1])) = 0 THEN "null" ELSE "array")

\* C9 witness: a report of two events was returned while the world state also
\* held an event "~1" dated in the range, a batch and an order.
C9_Witness ==
    /\ last.op = "GenerateReport"
    /\ last.caller.role = Attr("authority")
    /\ Len(DecodeReport(last.ret[1])) = 2
    /\ \E c \in CatchRecords(state) :
          c.CatchID = <<126, 49>> /\ InDateRange(c, last.args[1], last.args[2])
    /\ (BATCH_ \o <<49>>) \in DOMAIN state
    /\ (ORDER_ \o <<49>>) \in DOMAIN state

\* C10: GenerateReport by a caller whose role is not "authority" returns the
\* authorization error and no payload, and the call has opened no iterator.
C10_DeniedBeforeScan ==
    (last.op = "GenerateReport" /\ LacksRole(last.caller, "authority"))
      => /\ ErrMsg(last.err) = "only authority can generate reports"
         /\ last.ret = <<>>
         /\ last.opened = 0

\* C10 for the callers that carry a role attribute: the part of it that holds
\* in both variants.
C10_OtherRoleDenied ==
    (last.op = "GenerateReport" /\ HasOtherRole(last.caller, "authority"))
      => /\ ErrMsg(last.err) = "only authority can generate reports"
         /\ last.ret = <<>>
         /\ last.opened = 0

\* The entries the scan of the world state st yields, and among them the
\* steps at which the scan fails: the failing iter.Next() and the records that
\* do not decode.
Scanned(st) == GetStateByRange(st, CATCH_, CATCH_ \o Tilde)
FailingSteps(st, failAt) ==
    {i \in 1..Len(Scanned(st)) :
        i = failAt \/ IsErr(UnmarshalCatch(Scanned(st)[i].Value).err)}

\* A GenerateReport call that passed the authorization check and obtained
\* its iterator.
ScanStarted ==
    /\ last.op = "GenerateReport"
    /\ hasRole(variant, last.caller, "authority")
    /\ last.args[3] # 0 - 1

\* C11: every iterator GenerateReport opens is released before the call
\* returns, on every exit path: normal completion, a failure of Next, a record
\* that does not decode, a failure to serialize the result; and a call that
\* got past the authorization check and the range query did open one.
C11_IteratorReleased ==
    last.op = "GenerateReport"
      => /\ last.closed = last.opened
         /\ ScanStarted => last.opened = 1
         /\ ~ScanStarted => last.opened = 0

\* C11 witness: the scan returned early at its second record, which does not
\* decode, and the iterator it had opened was released.
C11_Witness ==
    /\ ScanStarted
    /\ last.args[3] = 0
    /\ ErrMsg(last.err) = "json: cannot unmarshal"
    /\ last.read = 2
    /\ last.opened = 1
    /\ last.closed = 1

\* C12: when an iteration step or the decoding of a scanned record fails, the
\* scan stops at that step and the call returns an error and an empty payload.
C12_NoPartialReport ==
    (ScanStarted /\ FailingSteps(state, last.args[3]) # {})
      => /\ IsErr(last.err)
         /\ last.ret = <<>>
         /\ \A i \in FailingSteps(state, last.args[3]) : last.read <= i
         /\ last.read \in FailingSteps(state, last.args[3])

\* C12 witness: the second iter.Next() failed after a first record that lies
\* in the date range had been accumulated.
C12_Witness ==
    /\ ScanStarted
    /\ last.args[3] = 2
    /\ FailingSteps(state, 2) = {2}
    /\ InDateRange(UnmarshalCatch(Scanned(state)[1].Value).val, last.args[1], last.args[2])
    /\ ErrMsg(last.err) = "iterator: next failed"
    /\ last.ret = <<>>
    /\ last.read = 2

\* The keys of Participant, HarvestEvent and Aggregate records.
IsImmutableKey(k) == HasPrefix(k, FISHER_) \/ HasPrefix(k, CATCH_) \/ HasPrefix(k, BATCH_)

\* Every record of st under a key that satisfies P is in st2 with the same
\* value.
Kept(st, st2, P(_)) ==
    \A k \in DOMAIN st : P(k) => (k \in DOMAIN st2 /\ st2[k] = st[k])

\* C13: a record stored under FISHER_id, CATCH_id or BATCH_id, in the world
\* state or the private collection, has the same value after every step.
C13_RecordsImmutable ==
    [][Kept(state, state', IsImmutableKey) /\ Kept(priv, priv', IsImmutableKey)]_vars

\* The Aggregate record that the bytes b encode.
DecodeBatch(b) ==
    [BatchID |-> StringField(b, "batchId"),
     CatchIDs |-> IF Member(b, "catchIds") = <<>> THEN <<>> ELSE Member(b, "catchIds")[1].v,
     ProcessorID |-> StringField(b, "processorId"),
     Date |-> StringField(b, "date"),
     QRCodeURL |-> StringField(b, "qrCodeUrl")]

BatchKeys(st) == {k \in DOMAIN st : HasPrefix(k, BATCH_)}
KeyId(k, prefix) == SubSeq(k, Len(prefix) + 1, Len(k))

\* What C14 says of a step that is a CreateBatch call with the arguments c:
\* TrackBatch of the identifier returns the stored bytes, they encode the
\* arguments, the URL is the one an earlier aggregate of that identifier had,
\* and no stored aggregate with another identifier (among those that satisfy
\* P) has it.
TrackReturnsWritten(st, st2, c, P(_)) ==
    LET key == BATCH_ \o c.args[1]
        t   == TrackBatchResult(st2, c.args[1])
        rec == DecodeBatch(t.ret[1])
    IN  /\ c.err = Nil
        /\ t.err = Nil
        /\ t.ret[1] = st2[key]
        /\ rec.BatchID = c.args[1]
        /\ rec.CatchIDs = c.args[2]
        /\ rec.ProcessorID = c.args[3]
        /\ rec.Date = c.args[4]
        /\ key \in DOMAIN st => DecodeBatch(st[key]).QRCodeURL = rec.QRCodeURL
        /\ \A k \in BatchKeys(st2) \ {key} :
              P(KeyId(k, BATCH_)) => DecodeBatch(st2[k]).QRCodeURL # rec.QRCodeURL

AnyText(s) == TRUE

C19_CatchIdsAsGiven ==
    (last.op = "CreateBatch" /\ last.caller.role = Attr("processor"))
      => /\ last.err = Nil
         /\ (BATCH_ \o last.args[1]) \in DOMAIN state
         /\ LET stored == DecodeBatch(state[BATCH_ \o last.args[1]]).CatchIDs
            IN  /\ Len(stored) = Len(last.args[2])
                /\ \A i \in DOMAIN stored : stored[i] = last.args[2][i]

\* C19 witness: an aggregate was created from the list <<"2", "9">>, neither
\* of which names a stored event, while the event "1" is stored.
C19_Witness ==
    /\ last.op = "CreateBatch"
    /\ last.caller.role = Attr("processor")
    /\ last.args[2] = <<<<50>>, <<57>>>>
    /\ DecodeBatch(state[BATCH_ \o last.args[1]]).CatchIDs = <<<<50>>, <<57>>>>
    /\ DOMAIN state \cap {CATCH_ \o <<50>>, CATCH_ \o <<57>>} = {}
    /\ (CATCH_ \o <<49>>) \in DOMAIN state

\* C19, the other case: the list <<"1", "1">> names a stored event twice and
\* is stored with both occurrences.
C19_DuplicatesKept ==
    (/\ last.op = "CreateBatch"
     /\ last.caller.role = Attr("processor")
     /\ last.args[2] = <<<<49>>, <<49>>>>)
      => DecodeBatch(state[BATCH_ \o last.args[1]]).CatchIDs = <<<<49>>, <<49>>>>

\* The key a lookup reads and the partition it reads it from.
Lookups == {"GetFisher", "GetCatch", "TrackBatch", "ReadAsset"}
LookupKey(c) ==
    CASE c.op = "GetFisher"  -> FISHER_ \o c.args[1]
      [] c.op = "GetCatch"   -> CATCH_ \o c.args[1]
      [] c.op = "TrackBatch" -> BATCH_ \o c.args[1]
      [] c.op = "ReadAsset"  -> ASSET_ \o c.args[1]
LookupStore(v, st, pv, c) == IF c.op = "GetFisher" /\ v = "fisheries" THEN pv ELSE st
NotFound == {"fisher %s does not exist", "catch %s not found", "batch %s not found",
             "asset %s not found"}

\* C15: a lookup of an identifier with no record under its key returns the
\* not-found error naming the identifier and no record, and changes nothing.
C15_AbsentIsNotFound ==
    [][(/\ last'.op \in Lookups
        /\ LookupKey(last') \notin DOMAIN LookupStore(variant, state, priv, last'))
         => /\ ErrMsg(last'.err) \in NotFound
            /\ last'.err[2] = last'.args[1]
            /\ last'.ret = <<>>
            /\ state' = state
            /\ priv' = priv]_vars

\* C15 witness: GetCatch("2") found nothing while the event "1" was stored.
C15_Witness ==
    /\ last.op = "GetCatch"
    /\ last.args[1] = <<50>>
    /\ last.err = Errorf("catch %s not found", <<50>>)
    /\ last.ret = <<>>
    /\ (CATCH_ \o <<49>>) \in DOMAIN state

\* C16: UpdateAsset, TransferAsset and DeleteAsset for an asset id with no
\* stored record return "not found" and change nothing.
C16_AbsentAssetNotFound ==
    [][(/\ last'.op \in {"UpdateAsset", "TransferAsset", "DeleteAsset"}
        /\ (ASSET_ \o last'.args[1]) \notin DOMAIN state)
         => /\ last'.err = Errorf("asset %s not found", last'.args[1])
            /\ state' = state
            /\ priv' = priv]_vars

\* C16 witness: UpdateAsset of the absent asset "2" with a size that does not
\* parse reported "not found", while the asset "1" was stored.
C16_Witness ==
    /\ last.op = "UpdateAsset"
    /\ last.args[1] = <<50>>
    /\ last.args[3] = <<120>>
    /\ last.err = Errorf("asset %s not found", <<50>>)
    /\ (ASSET_ \o <<50>>) \notin DOMAIN state
    /\ (ASSET_ \o <<49>>) \in DOMAIN state

\* C17: no step removes a key that is not an asset key; a step that removes
\* a key is a successful DeleteAsset(id), and such a step removes ASSET_id
\* and changes nothing else.
C17_OnlyDeleteAssetRemoves ==
    [][/\ \A k \in DOMAIN state : ~HasPrefix(k, ASSET_) => k \in DOMAIN state'
       /\ DOMAIN priv \subseteq DOMAIN priv'
       /\ (DOMAIN state \ DOMAIN state' # {}) => (last'.op = "DeleteAsset" /\ last'.err = Nil)
       /\ (last'.op = "DeleteAsset" /\ last'.err = Nil)
            => /\ (ASSET_ \o last'.args[1]) \in DOMAIN state
               /\ DOMAIN state' = DOMAIN state \ {ASSET_ \o last'.args[1]}
               /\ \A k \in DOMAIN state' : state'[k] = state[k]
               /\ priv' = priv]_vars

\* C17 witness: DeleteAsset("1") succeeded and the asset "2" is still stored.
C17_Witness ==
    /\ last.op = "DeleteAsset"
    /\ last.args[1] = <<49>>
    /\ last.err = Nil
    /\ (ASSET_ \o <<49>>) \notin DOMAIN state
    /\ (ASSET_ \o <<50>>) \in DOMAIN state

\* What a read operation returns when it is called again with the arguments
\* of the call c.
ReadAgain(v, st, pv, c) ==
    CASE c.op = "GetFisher"  -> GetFisherResult(IF v = "bigdatacc" THEN st ELSE pv, c.args[1])
      [] c.op = "GetCatch"   -> GetCatchResult(st, c.args[1])
      [] c.op = "TrackBatch" -> TrackBatchResult(st, c.args[1])

\* C18: GetFisher, GetCatch and TrackBatch change no key, and the same call
\* made again right after returns the same error and the same payload.
C18_ReadsArePure ==
    [][last'.op \in {"GetFisher", "GetCatch", "TrackBatch"}
         => /\ state' = state
            /\ priv' = priv
            /\ ReadAgain(variant, state', priv', last') =
                  [err |-> last'.err, ret |-> last'.ret]]_vars

\* C18 witness: GetFisher("1") returned the stored participant.
C18_Witness ==
    /\ last.op = "GetFisher"
    /\ last.args[1] = <<49>>
    /\ last.err = Nil
    /\ last.ret[1].Name = <<97>>
    /\ (FISHER_ \o <<49>>) \in DOMAIN FisherStore

placed == <<112, 108, 97, 99, 101, 100>>

\* C20: every stored Order record has the status "placed".
C20_OrdersArePlaced ==
    \A k \in DOMAIN state :
        HasPrefix(k, ORDER_) => StringField(state[k], "status") = placed

\* C20 witness: an order is stored and an asset was transferred since.
C20_Witness ==
    /\ (ORDER_ \o <<49>>) \in DOMAIN state
    /\ last.op = "TransferAsset"
    /\ last.err = Nil

\* The keys under which the stores st and st2 differ.
Changed(st, st2) ==
    {k \in DOMAIN st \cup DOMAIN st2 :
        k \notin DOMAIN st \/ k \notin DOMAIN st2 \/ st[k] # st2[k]}

\* The key prefix of the entity type an operation belongs to.
OwnPrefix(op) ==
    CASE op \in {"RegisterFisher", "GetFisher"} -> FISHER_
      [] op \in {"LogCatch", "GetCatch", "GenerateReport"} -> CATCH_
      [] op \in {"CreateBatch", "TrackBatch"} -> BATCH_
      [] op = "PlaceOrder" -> ORDER_
      [] OTHER -> ASSET_

\* C21: a step changes at most the key PREFIX_ + id of the operation's own
\* entity type; a successful RegisterFisher, LogCatch, CreateBatch, PlaceOrder
\* or CreateAsset leaves its record under that key, in the partition of its
\* type, and an operation that returns an error changes nothing.
C21_WritesOwnKeyOnly ==
    [][LET own == OwnPrefix(last'.op) \o last'.args[1]
           inPriv == last'.op = "RegisterFisher" /\ variant = "fisheries"
       IN  /\ Changed(state, state') \subseteq (IF inPriv THEN {} ELSE {own})
           /\ Changed(priv, priv') \subseteq (IF inPriv THEN {own} ELSE {})
           /\ IsErr(last'.err) => (state' = state /\ priv' = priv)
           /\ (/\ last'.op \in Creates \cup {"CreateAsset"}
               /\ last'.err = Nil)
                => own \in DOMAIN (IF inPriv THEN priv' ELSE state')]_vars

\* C21 witness: LogCatch wrote CATCH_1 on a ledger that holds an order.
C21_Witness ==
    /\ last.op = "LogCatch"
    /\ last.err = Nil
    /\ (CATCH_ \o <<49>>) \in DOMAIN state
    /\ (ORDER_ \o <<49>>) \in DOMAIN state

\* C22: on a stored asset, a successful TransferAsset changes the owner
\* alone, a successful UpdateAsset sets color, size and appraisedValue and
\* keeps id and owner; UpdateAsset succeeds when both numbers parse, and
\* returns an error and changes nothing when one of them does not.
C22_AssetFieldFrames ==
    [][LET key == ASSET_ \o last'.args[1]
           old == UnmarshalAsset(state[key]).val
           new == UnmarshalAsset(state'[key]).val
       IN  (last'.op \in {"TransferAsset", "UpdateAsset"} /\ key \in DOMAIN state)
             => /\ Changed(state, state') \subseteq {key}
                /\ (last'.op = "TransferAsset")
                     => /\ last'.err = Nil
                        /\ new = [old EXCEPT !.Owner = last'.args[2]]
                /\ (last'.op = "UpdateAsset")
                     => IF IsErr(Atoi(last'.args[3]).err) \/ IsErr(Atoi(last'.args[4]).err)
                        THEN IsErr(last'.err) /\ state' = state
                        ELSE /\ last'.err = Nil
                             /\ new.ID = old.ID
                             /\ new.Owner = old.Owner
                             /\ new.Color = last'.args[2]
                             /\ new.Size = Atoi(last'.args[3]).val
                             /\ new.AppraisedValue = Atoi(last'.args[4]).val]_vars

\* C22 witness: the asset "1", transferred to "p" before, was updated to
\* color "r", size -3 and value 7, while the asset "2" is stored.
C22_Witness ==
    /\ last.op = "UpdateAsset"
    /\ last.err = Nil
    /\ (ASSET_ \o <<50>>) \in DOMAIN state
    /\ ReadAssetResult(state, <<49>>).ret =
          <<[ID |-> <<49>>, Color |-> <<114>>, Size |-> 0 - 3, Owner |-> <<112>>,
             AppraisedValue |-> 7]>>

\* C22, the failing case: an update whose appraised value does not parse,
\* after a size that does, changes nothing.
C22_BadValueChangesNothing ==
    [][(/\ last'.op = "UpdateAsset"
        /\ last'.args[3] = <<45, 51>>
        /\ last'.args[4] = <<121>>)
         => IsErr(last'.err) /\ state' = state]_vars

====
